---- MODULE Spec2Model ----
(***************************************************************************)
(* The SideShift.ai swap plugin: fetchSwapQuote as a state machine.        *)
(*                                                                         *)
(* The repository holds several revisions of the plugin.  One invocation   *)
(* of fetchSwapQuote of one revision is modelled; the revision is fixed in *)
(* Init (variable `variant`):                                              *)
(*   "P001"  src/unnamed/part_001  (checkRateForError, numeric limits)     *)
(*   "P004"  src/unnamed/part_004  (getSafeCurrencyCode, checkQuoteError)  *)
(*   "P000A" src/unnamed/part_000 lines 1-312 (createSideShiftApi)         *)
(*   "P000B" src/unnamed/part_000 lines 313-639 (JSON-RPC `call`)          *)
(*   "P000C" src/unnamed/part_000 lines 641-957 (`callApi`)                *)
(*   "SJS"   src/src/swap/sideshift.js                                     *)
(*                                                                         *)
(* Every await on a collaborator (provider HTTP endpoint, wallet) is one   *)
(* action: it records the call, draws the collaborator's reply, and runs   *)
(* the code up to the next await.                                          *)
(*                                                                         *)
(* Amounts.  A native amount is an integer.  A denominated amount (the     *)
(* decimal strings of the wallet and of the provider) is represented by    *)
(* its number of 10^-8 units, the resolution of toFixed(8).                *)
(***************************************************************************)
EXTENDS Integers, Sequences, FiniteSets, TLC

\* ------------------------------------------------------------------ bounds
\* native amounts a caller may request: 100, 200, .. 100 * MaxAmount
MaxAmount == 3
NativeAmounts == {100 * k : k \in 1..MaxAmount}
\* the provider's min / max bounds (denominated): 100 * (1..MaxLimit) each
MaxLimit == 3
RateBounds == {<<100 * a, 100 * b>> : a, b \in 1..MaxLimit}
\* the provider's rates, as fractions <<numerator, denominator>>
Rates == {<<2, 1>>, <<1, 2>>, <<3, 1>>}
\* HTTP statuses of provider replies
Statuses == {200, 403, 500}

\* --------------------------------------------------------------- constants
\* denominated amounts carry 8 fractional digits: (x).toFixed(8)
DenomUnit == 100000000
\* const orderExpirationMs = 1000 * 60 * 5
orderExpirationMs == 300000
\* reply.error.code === -32602
InvalidCurrencyCode == -32602
\* the value of a field that the reply does not have
Undefined == -1

Variants == {"P001", "P004", "P000A", "P000B", "P000C", "SJS"}
\* revisions whose fetchSwapQuote wraps getFixedQuote in try/catch
CatchVariants == {"P000B", "P000C"}
\* revisions that start with GET permissions
PermissionVariants == {"P001", "P004", "P000A"}

Tickers == {"BTC", "LTC", "USDT"}

\* the wallet's denomination table: native units per denominated unit
Multiplier(code) ==
  CASE code = "BTC" -> 100000000
    [] code = "LTC" -> 100000000
    [] code = "USDT" -> 1000000
    [] OTHER -> 1

\* String.prototype.toLowerCase on the strings of the model
toLowerCase(s) ==
  CASE s = "BTC" -> "btc"
    [] s = "LTC" -> "ltc"
    [] s = "USDT" -> "usdt"
    [] s = "USDT20" -> "usdt20"
    [] s = "usdtErc20" -> "usdterc20"
    [] OTHER -> s

\* String.prototype.toUpperCase on the tickers of the model
toUpperCase(s) ==
  CASE s = "btc" -> "BTC"
    [] s = "ltc" -> "LTC"
    [] s = "usdt" -> "USDT"
    [] OTHER -> s

\* CURRENCY_CODE_TRANSCRIPTION: "" stands for a missing key
CURRENCY_CODE_TRANSCRIPTION(v, code) ==
  IF code = "USDT"
  THEN (IF v \in PermissionVariants THEN "usdtErc20" ELSE "USDT20")
  ELSE ""

\* dontUseLegacy
dontUseLegacy(v, code) ==
  IF v \in PermissionVariants THEN FALSE ELSE code = "DGB"

\* a mapper that lowercases the table value as well
safeCurrencyCode_lowercased(v, code) ==
  LET t == CURRENCY_CODE_TRANSCRIPTION(v, code) IN
  IF t # "" THEN toLowerCase(t) ELSE toLowerCase(code)

\* the exchange method of a ticker, as each revision computes it
safeCurrencyCode(v, code) ==
  LET t == CURRENCY_CODE_TRANSCRIPTION(v, code) IN
  CASE v \in PermissionVariants -> IF t # "" THEN t ELSE toLowerCase(code)
    [] v = "P000B" -> IF t # "" THEN t ELSE code
    [] OTHER -> IF t # "" THEN toLowerCase(t) ELSE code

\* the depositMethod / settleMethod written into the POST quotes body
quoteMethod(v, code) ==
  IF v \in {"P000B", "P000C"}
  THEN toLowerCase(safeCurrencyCode(v, code))
  ELSE safeCurrencyCode(v, code)

\* wallet.nativeToDenomination: div(nativeAmount, multiplier)
nativeToDenomination(nativeAmount, code) ==
  nativeAmount * (DenomUnit \div Multiplier(code))

\* wallet.denominationToNative: mul(denominatedAmount, multiplier)
denominationToNative(amount, code) ==
  amount \div (DenomUnit \div Multiplier(code))

\* biggystring mul(depositAmount, multiplier)
mul(amount, multiplier) == amount \div (DenomUnit \div multiplier)

\* biggystring lt / gt
lt(a, b) == a < b
gt(a, b) == a > b

\* (parseFloat(quoteAmount) / rate.rate).toFixed(8): round to nearest unit
divToFixed(quoteAmount, rate) ==
  (2 * quoteAmount * rate[2] + rate[1]) \div (2 * rate[1])

\* ------------------------------------------------------------------ errors
NoError == [type |-> "none", from |-> "", to |-> "", native |-> Undefined,
            status |-> Undefined]
SwapPermissionError ==
  [NoError EXCEPT !.type = "SwapPermissionError", !.from = "geoRestriction"]
SwapCurrencyError(from, to) ==
  [NoError EXCEPT !.type = "SwapCurrencyError", !.from = from, !.to = to]
SwapBelowLimitError(nativeMin) ==
  [NoError EXCEPT !.type = "SwapBelowLimitError", !.native = nativeMin]
SwapAboveLimitError(nativeMax) ==
  [NoError EXCEPT !.type = "SwapAboveLimitError", !.native = nativeMax]
\* new Error(`SideShift.ai returned error code ${reply.status}`)
StatusError(status) == [NoError EXCEPT !.type = "Error", !.status = status]
\* new Error('SideShift.ai error: ' + JSON.stringify(reply.error))
ProviderError == [NoError EXCEPT !.type = "Error", !.from = "SideShift.ai error"]
\* thrown by the runtime or by a collaborator
TypeError == [NoError EXCEPT !.type = "TypeError"]
SyntaxError == [NoError EXCEPT !.type = "SyntaxError"]
FetchError == [NoError EXCEPT !.type = "FetchError"]
WalletError == [NoError EXCEPT !.type = "WalletError"]

\* ----------------------------------------------------------- the request
\* EdgeSwapRequest; a source asset of 6 decimals is quoted for 'from' only,
\* so that every native amount of the model is an integer
Pairs == {<<"BTC", "LTC">>, <<"BTC", "USDT">>, <<"USDT", "BTC">>}
Requests ==
  {r \in [fromCurrencyCode : Tickers, toCurrencyCode : Tickers,
          quoteFor : {"from", "to"}, nativeAmount : NativeAmounts] :
     /\ <<r.fromCurrencyCode, r.toCurrencyCode>> \in Pairs
     /\ ~(r.fromCurrencyCode = "USDT" /\ r.quoteFor = "to")}

\* ------------------------------------------------- the collaborators' replies
\* An HTTP reply: fetched = FALSE when fetch itself rejects, json = FALSE when
\* reply.json() rejects.
HttpReplies(okBodies, errBodies, noBody) ==
  {[fetched |-> FALSE, status |-> Undefined, json |-> FALSE, body |-> noBody]}
  \cup {[fetched |-> TRUE, status |-> s, json |-> FALSE, body |-> noBody] :
          s \in Statuses}
  \cup {[fetched |-> TRUE, status |-> 200, json |-> TRUE, body |-> b] :
          b \in okBodies}
  \cup {[fetched |-> TRUE, status |-> s, json |-> TRUE, body |-> b] :
          s \in Statuses, b \in errBodies}

\* response.ok
ok(reply) == reply.status >= 200 /\ reply.status <= 299

\* GET permissions -> Permission; a missing field is "undefined"
NoPermission == [createOrder |-> "undefined", createQuote |-> "undefined"]
PermissionBodies ==
  {[createOrder |-> "true", createQuote |-> "true"],
   [createOrder |-> "false", createQuote |-> "true"],
   [createOrder |-> "true", createQuote |-> "false"],
   [createOrder |-> "false", createQuote |-> "false"],
   [createOrder |-> "undefined", createQuote |-> "true"],
   [createOrder |-> "true", createQuote |-> "undefined"]}
PermissionReplies == HttpReplies(PermissionBodies, {}, NoPermission)

\* GET pairs/.. -> Rate; error = "" when the reply has no error field
NoRate == [rate |-> <<Undefined, Undefined>>, min |-> Undefined,
           max |-> Undefined, error |-> ""]
RateBodies ==
  {[rate |-> r, min |-> b[1], max |-> b[2], error |-> ""] :
     r \in Rates, b \in RateBounds}
RateErrorBodies ==
  {[NoRate EXCEPT !.error = m] :
     m \in {"Invalid currency: xyz", "Access denied: geo"}}
RateReplies == HttpReplies(RateBodies, RateErrorBodies, NoRate)

\* POST quotes -> FixedQuote
NoQuoteBody == [id |-> "undefined", depositAmount |-> Undefined,
                settleAmount |-> Undefined, error |-> ""]
QuoteBodies == {[id |-> "q1", depositAmount |-> 200, settleAmount |-> 500,
                 error |-> ""]}
QuoteErrorBodies ==
  {[NoQuoteBody EXCEPT !.error = m] :
     m \in {"Amount too low", "Amount too high", "Invalid quote",
            "Access denied: geo"}}
QuoteReplies == HttpReplies(QuoteBodies, QuoteErrorBodies, NoQuoteBody)

\* POST orders -> OrderRequest / Order
NoOrder == [id |-> "undefined", orderId |-> "undefined",
            depositAddress |-> "undefined", settleAddress |-> "undefined",
            depositAmount |-> Undefined, settleAmount |-> Undefined,
            expiresAt |-> Undefined, expiresAtISO |-> Undefined,
            error |-> "", code |-> 0]
OrderBodies ==
  {[id |-> "o1", orderId |-> oid,
    depositAddress |-> "providerDeposit", settleAddress |-> "providerSettle",
    depositAmount |-> 200, settleAmount |-> 300,
    expiresAt |-> 1000, expiresAtISO |-> 1000, error |-> "", code |-> 0] :
     oid \in {"o1", "o1b"}}
OrderErrorBodies ==
  {[NoOrder EXCEPT !.error = "Invalid currency: xyz"],
   [NoOrder EXCEPT !.error = "Order failed"],
   [NoOrder EXCEPT !.error = "Order failed", !.code = InvalidCurrencyCode]}
OrderReplies == HttpReplies(OrderBodies, OrderErrorBodies, NoOrder)

\* wallet.getReceiveAddress -> addressInfo, or a rejection (failed = TRUE);
\* legacyAddress = "" when the record has none
AddressReplies(side) ==
  {[failed |-> TRUE, publicAddress |-> "", legacyAddress |-> ""],
   [failed |-> FALSE, publicAddress |-> side \o "Public", legacyAddress |-> ""],
   [failed |-> FALSE, publicAddress |-> side \o "Public",
    legacyAddress |-> side \o "Legacy"]}

\* a getAddress that does not consult dontUseLegacy
getAddress_alwaysLegacy(v, addressInfo, currencyCode) ==
  IF addressInfo.legacyAddress # ""
  THEN addressInfo.legacyAddress
  ELSE addressInfo.publicAddress

\* getAddress
getAddress(v, addressInfo, currencyCode) ==
  IF addressInfo.legacyAddress # "" /\ ~dontUseLegacy(v, currencyCode)
  THEN addressInfo.legacyAddress
  ELSE addressInfo.publicAddress

\* ------------------------------------------------------- the module scope
\* the keys the tables are looked up with
TableCodes == Tickers \cup {"DGB", "btc"}

\* const swapInfo: EdgeSwapInfo = {pluginId, displayName, supportEmail}
swapInfo ==
  [pluginId |-> "sideshift", displayName |-> "SideShift.ai",
   supportEmail |-> "help@sideshift.ai"]

\* the module-level objects of a revision, as the file defines them
ModuleScope(v) ==
  [CURRENCY_CODE_TRANSCRIPTION |->
     [c \in TableCodes |-> CURRENCY_CODE_TRANSCRIPTION(v, c)],
   dontUseLegacy |-> [c \in TableCodes |-> dontUseLegacy(v, c)],
   swapInfo |-> swapInfo]

\* plugin: swapInfo, the module's object itself
pluginOf_alias(info) == [shared |-> TRUE, value |-> info]

\* plugin: { ...swapInfo }, a new object with the fields of swapInfo
pluginOf(info) == [shared |-> FALSE, value |-> info]

\* --------------------------------------------------------------- the state
VARIABLES
  variant,        \* the revision of the plugin that runs
  request,        \* the caller's EdgeSwapRequest
  pc,             \* the await fetchSwapQuote is at
  calls,          \* the collaborator calls made so far, in order
  outcome,        \* the promise fetchSwapQuote returned
  permission,     \* const permission
  addresses,      \* depositAddress / settleAddress; "" while pending
  rate,           \* const rate
  depositAmount,  \* const depositAmount (quoteAmount where there is no rate)
  fixedQuote,     \* const fixedRateQuote / fixedQuote
  order,          \* const quoteInfo / order
  spendInfo,      \* const spendInfo, with the amounts computed beside it
  lastReply,      \* the provider's latest HTTP reply, as fetch delivered it
  received,       \* what the collaborators returned to this invocation, in order
  other,          \* a second invocation of the same plugin, while it is
                  \* suspended at an await (NoInvocation when there is none)
  moduleScope     \* the objects of the module scope, shared by all invocations:
                  \* CURRENCY_CODE_TRANSCRIPTION, dontUseLegacy, swapInfo

vars == <<variant, request, pc, calls, outcome, permission, addresses, rate,
          depositAmount, fixedQuote, order, spendInfo, lastReply, received,
          other, moduleScope>>

\* what one collaborator returned: the reply, and for a step that reads an
\* undefined value the outcome the runtime took (NoError where the code
\* decides)
Received(op, reply, choice) == [op |-> op, reply |-> reply, choice |-> choice]

\* there is one invocation only
NoInvocation == [pc |-> "none"]

\* what fetch delivered: whether it resolved, reply.status, whether
\* reply.json() resolves
NoReply == [fetched |-> FALSE, status |-> Undefined, json |-> FALSE]
replyOf(reply) ==
  [fetched |-> reply.fetched, status |-> reply.status, json |-> reply.json]

\* a collaborator call; the unused fields are "" / Undefined
Call(op, a, b, amount) == [op |-> op, a |-> a, b |-> b, amount |-> amount]

\* the value POST returns in SJS: checkReply has no return statement
UndefinedQuote == [NoQuoteBody EXCEPT !.id = "no value"]

NoSpendInfo ==
  [publicAddress |-> "", nativeAmount |-> Undefined,
   networkFeeOption |-> "", orderId |-> "", isEstimate |-> FALSE,
   payoutAddress |-> "", payoutCurrencyCode |-> "",
   payoutNativeAmount |-> Undefined, refundAddress |-> "",
   amountExpectedFromNative |-> Undefined,
   amountExpectedToNative |-> Undefined]

\* the EdgeSwapQuote that makeSwapPluginQuote builds from its arguments
NoSwapQuote ==
  [fromNativeAmount |-> Undefined, toNativeAmount |-> Undefined,
   tx |-> "", destinationAddress |-> "", pluginId |-> "",
   isEstimate |-> FALSE, expirationDate |-> Undefined, quoteId |-> ""]

Pending == [kind |-> "pending", error |-> NoError, quote |-> NoSwapQuote]
Rejected(e) == [kind |-> "rejected", error |-> e, quote |-> NoSwapQuote]
Resolved(q) == [kind |-> "resolved", error |-> NoError, quote |-> q]
\* `return e` in the catch block: the promise resolves with the error object
ResolvedWithError(e) == [kind |-> "resolved", error |-> e, quote |-> NoSwapQuote]

\* the order of the awaits of each revision
FirstPc(v) == IF v \in PermissionVariants THEN "permissions" ELSE "addresses"
AfterAddresses(v) == IF v \in PermissionVariants THEN "pairs" ELSE "quotes"
AfterPairs(v) == IF v \in PermissionVariants THEN "quotes" ELSE "orders"
\* a revision that posts the quote again
AfterQuotes_retry(v) == "quotes"
AfterQuotes(v) == IF v \in {"P000C", "SJS"} THEN "pairs" ELSE "orders"

Init ==
  /\ variant \in Variants
  /\ request \in Requests
  /\ pc = FirstPc(variant)
  /\ calls = <<>>
  /\ outcome = Pending
  /\ permission = NoPermission
  /\ addresses = [from |-> "", to |-> ""]
  /\ rate = NoRate
  /\ depositAmount = Undefined
  /\ fixedQuote = NoQuoteBody
  /\ order = NoOrder
  /\ spendInfo = NoSpendInfo
  /\ lastReply = NoReply
  /\ received = <<>>
  /\ other = NoInvocation
  /\ moduleScope = ModuleScope(variant)

\* a throw inside fetchSwapQuote (inside getFixedQuote for P000B, P000C)
Throw(e) ==
  /\ pc' = "done"
  /\ outcome' = IF variant \in CatchVariants
                THEN ResolvedWithError(e)
                ELSE Rejected(e)

\* /geo/.test(replyJson.error), on the error texts of the model
geoTest(error) == error = "Access denied: geo"

\* the error get / post / call / callApi throws for a reply, or NoError
transportError(v, method, reply) ==
  CASE v = "P000A" ->
         \* checkReply is handed the Promise io.fetch returned: reply.json is
         \* not a function and reply.status is undefined, whatever arrives
         StatusError(Undefined)
    [] v # "P000A" /\ ~reply.fetched -> FetchError
    [] reply.fetched /\ v \in {"P001", "P004"} ->
         IF ~reply.json THEN StatusError(reply.status) ELSE NoError
    [] reply.fetched /\ v \in {"P000B", "P000C"} ->
         IF ~ok(reply) THEN StatusError(reply.status)
         ELSE IF ~reply.json THEN SyntaxError ELSE NoError
    [] OTHER ->
         IF method = "GET" THEN NoError
         ELSE IF ~reply.json THEN StatusError(reply.status)
         ELSE IF reply.status = 403 /\ geoTest(reply.body.error)
              THEN SwapPermissionError
              ELSE NoError

\* ------------------------------------------------------------ GET permissions
\* a revision that tests one capability only
permissionDenied_createOrderOnly(p) == p.createOrder = "false"

\* permission.createOrder === false || permission.createQuote === false
permissionDenied(p) == p.createOrder = "false" \/ p.createQuote = "false"

GetPermissions ==
  /\ pc = "permissions"
  /\ \E reply \in PermissionReplies :
       LET e == transportError(variant, "GET", reply) IN
       /\ lastReply' = replyOf(reply)
       /\ received' = Append(received, Received("GET permissions", reply, NoError))
       /\ calls' = Append(calls, Call("GET permissions", "", "", Undefined))
       /\ IF e # NoError
          THEN Throw(e) /\ UNCHANGED permission
          ELSE /\ permission' = reply.body
               /\ IF permissionDenied(reply.body)
                  THEN Throw(SwapPermissionError)
                  ELSE pc' = "addresses" /\ UNCHANGED outcome
  /\ UNCHANGED <<other, moduleScope>>
  /\ UNCHANGED <<variant, request, addresses, rate, depositAmount, fixedQuote,
                 order, spendInfo>>

\* ------------------------------------------------------------- getAddress x 2
\* Promise.all([getAddress(fromWallet..), getAddress(toWallet..)]): both
\* getReceiveAddress calls are made before either completes
StartAddressLookups ==
  /\ pc = "addresses"
  /\ calls' = calls \o
       << Call("getReceiveAddress", "fromWallet", request.fromCurrencyCode,
               Undefined),
          Call("getReceiveAddress", "toWallet", request.toCurrencyCode,
               Undefined) >>
  /\ pc' = "addressesWait"
  /\ UNCHANGED <<received, other, moduleScope>>
  /\ UNCHANGED <<variant, request, outcome, permission, addresses, rate,
                 depositAmount, fixedQuote, order, spendInfo, lastReply>>

\* Promise.race in place of Promise.all: the first lookup to complete lets
\* the invocation go on
AddressLookupDone_race(side) ==
  /\ pc = "addressesWait"
  /\ addresses[side] = ""
  /\ \E info \in AddressReplies(side) :
       /\ received' = Append(received, Received(side, info, NoError))
       /\ IF info.failed
          THEN Throw(WalletError) /\ UNCHANGED addresses
          ELSE LET code == IF side = "from" THEN request.fromCurrencyCode
                           ELSE request.toCurrencyCode
               IN /\ addresses' =
                       [addresses EXCEPT ![side] = getAddress(variant, info, code)]
                  /\ pc' = AfterAddresses(variant)
                  /\ UNCHANGED outcome
  /\ UNCHANGED <<other, moduleScope>>
  /\ UNCHANGED <<variant, request, calls, permission, rate, depositAmount,
                 fixedQuote, order, spendInfo, lastReply>>

\* one of the two lookups completes; Promise.all rejects on the first failure
\* and resolves when both have resolved
AddressLookupDone(side) ==
  /\ pc = "addressesWait"
  /\ addresses[side] = ""
  /\ \E info \in AddressReplies(side) :
       /\ received' = Append(received, Received(side, info, NoError))
       /\ IF info.failed
          THEN Throw(WalletError) /\ UNCHANGED addresses
          ELSE LET code == IF side = "from" THEN request.fromCurrencyCode
                           ELSE request.toCurrencyCode
                   a == [addresses EXCEPT
                           ![side] = getAddress(variant, info, code)]
               IN /\ addresses' = a
                  /\ pc' = IF a.from # "" /\ a.to # ""
                           THEN AfterAddresses(variant) ELSE pc
                  /\ UNCHANGED outcome
  /\ UNCHANGED <<other, moduleScope>>
  /\ UNCHANGED <<variant, request, calls, permission, rate, depositAmount,
                 fixedQuote, order, spendInfo, lastReply>>

FromAddressDone == AddressLookupDone("from")
ToAddressDone == AddressLookupDone("to")

\* ------------------------------------------------------------- limit checks
\* a limit check whose errors carry the amount instead of the bound
limitError_reportsAmount(amount, nativeMin, nativeMax) ==
  IF lt(amount, nativeMin) THEN SwapBelowLimitError(amount)
  ELSE IF gt(amount, nativeMax) THEN SwapAboveLimitError(amount)
  ELSE NoError

\* if (lt(amount, nativeMin)) throw ..; if (gt(amount, nativeMax)) throw ..
limitError(amount, nativeMin, nativeMax) ==
  IF lt(amount, nativeMin) THEN SwapBelowLimitError(nativeMin)
  ELSE IF gt(amount, nativeMax) THEN SwapAboveLimitError(nativeMax)
  ELSE NoError

\* What the limit check can do when rate.min / rate.max are undefined: the
\* conversion or the comparison of an undefined value may throw, may compare
\* either way, or may let the amount pass.
UndefinedLimitErrors ==
  {TypeError, SwapBelowLimitError(Undefined), SwapAboveLimitError(Undefined),
   NoError}

\* const quoteAmount = request.quoteFor === 'from' ? .. : ..
quoteAmountOf(req) ==
  IF req.quoteFor = "from"
  THEN nativeToDenomination(req.nativeAmount, req.fromCurrencyCode)
  ELSE nativeToDenomination(req.nativeAmount, req.toCurrencyCode)

\* const depositAmount = request.quoteFor === 'from' ? quoteAmount : (..).toFixed(8)
depositAmountOf(req, r) ==
  IF req.quoteFor = "from" THEN quoteAmountOf(req)
  ELSE IF r.rate[1] = Undefined THEN Undefined
  ELSE divToFixed(quoteAmountOf(req), r.rate)

\* checkRateForError without the test of rate.error
checkRateForError_noPairCheck(r, req, deposit) ==
  limitError(IF req.quoteFor = "from" THEN req.nativeAmount
             ELSE mul(deposit, Multiplier(req.fromCurrencyCode)),
             denominationToNative(r.min, req.fromCurrencyCode),
             denominationToNative(r.max, req.fromCurrencyCode))

\* checkRateForError comparing request.nativeAmount in both directions
checkRateForError_requestAmount(r, req, deposit) ==
  IF r.error # ""
  THEN SwapCurrencyError(req.fromCurrencyCode, req.toCurrencyCode)
  ELSE limitError(req.nativeAmount,
                  denominationToNative(r.min, req.fromCurrencyCode),
                  denominationToNative(r.max, req.fromCurrencyCode))

\* checkRateForError of part_001: the error it throws, or NoError
checkRateForError(r, req, deposit) ==
  IF r.error # ""
  THEN SwapCurrencyError(req.fromCurrencyCode, req.toCurrencyCode)
  ELSE LET multiplier == Multiplier(req.fromCurrencyCode)
           nativeDepositAmount == mul(deposit, multiplier)
           amount == IF req.quoteFor = "from" THEN req.nativeAmount
                     ELSE nativeDepositAmount
           nativeMin == denominationToNative(r.min, req.fromCurrencyCode)
           nativeMax == denominationToNative(r.max, req.fromCurrencyCode)
       IN limitError(amount, nativeMin, nativeMax)

\* checkQuoteError with the two bounds exchanged
checkQuoteError_swappedBounds(r, req, quoteErrorMessage) ==
  LET nativeMin == denominationToNative(r.min, req.fromCurrencyCode)
      nativeMax == denominationToNative(r.max, req.fromCurrencyCode)
  IN IF quoteErrorMessage = "Amount too low"
     THEN SwapBelowLimitError(nativeMax)
     ELSE IF quoteErrorMessage = "Amount too high"
     THEN SwapAboveLimitError(nativeMin)
     ELSE NoError

\* checkQuoteError of part_004: the error it throws, or NoError
checkQuoteError(r, req, quoteErrorMessage) ==
  LET nativeMin == denominationToNative(r.min, req.fromCurrencyCode)
      nativeMax == denominationToNative(r.max, req.fromCurrencyCode)
  IN IF quoteErrorMessage = "Amount too low"
     THEN SwapBelowLimitError(nativeMin)
     ELSE IF quoteErrorMessage = "Amount too high"
     THEN SwapAboveLimitError(nativeMax)
     ELSE NoError

\* the inline limit check of part_000 (641-957) and sideshift.js, on
\* request.nativeAmount
inlineLimitError(r, req) ==
  limitError(req.nativeAmount,
             denominationToNative(r.min, req.fromCurrencyCode),
             denominationToNative(r.max, req.fromCurrencyCode))

\* checkReplyforError of part_000: the error it throws, or NoError
checkReplyforError(reply, req) ==
  IF reply.error # ""
  THEN IF reply.code = InvalidCurrencyCode
          \/ reply.error = "Invalid currency: xyz"
       THEN SwapCurrencyError(req.fromCurrencyCode, req.toCurrencyCode)
       ELSE ProviderError
  ELSE NoError

\* ------------------------------------------------------------------ GET pairs
\* the two methods of the path pairs/{a}/{b}
ratePath(v, req) ==
  IF v \in {"P000C", "SJS"} /\ req.quoteFor = "to"
  THEN <<safeCurrencyCode(v, req.toCurrencyCode),
         safeCurrencyCode(v, req.fromCurrencyCode)>>
  ELSE <<safeCurrencyCode(v, req.fromCurrencyCode),
         safeCurrencyCode(v, req.toCurrencyCode)>>

\* the errors the code after the rate reply may throw (NoError: none)
rateStepErrors(v, r, req, quote) ==
  CASE v = "P001" -> {checkRateForError(r, req, depositAmountOf(req, r))}
    [] v \in {"P004", "P000A"} ->
         {IF r.error # ""
          THEN SwapCurrencyError(req.fromCurrencyCode, req.toCurrencyCode)
          ELSE NoError}
    [] v = "P000C" ->
         IF r.min = Undefined THEN UndefinedLimitErrors
         ELSE {inlineLimitError(r, req)}
    [] OTHER ->
         \* sideshift.js: rate is the raw reply, and fixedRateQuote.id is read
         \* from the undefined value post returned
         {IF e # NoError THEN e
          ELSE IF quote = UndefinedQuote THEN TypeError ELSE NoError :
            e \in UndefinedLimitErrors}

GetRate ==
  /\ pc = "pairs"
  /\ \E reply \in RateReplies :
       LET e == transportError(variant, "GET", reply)
           path == ratePath(variant, request)
           r == IF variant = "SJS" THEN NoRate ELSE reply.body
       IN
       /\ lastReply' = replyOf(reply)
       /\ calls' = Append(calls, Call("GET pairs", path[1], path[2], Undefined))
       /\ IF e # NoError
          THEN /\ Throw(e)
               /\ received' = Append(received, Received("GET pairs", reply, NoError))
               /\ UNCHANGED <<rate, depositAmount>>
          ELSE /\ rate' = r
               /\ depositAmount' = IF variant \in PermissionVariants
                                   THEN depositAmountOf(request, r)
                                   ELSE depositAmount
               /\ \E e2 \in rateStepErrors(variant, r, request, fixedQuote) :
                    /\ received' = Append(received, Received("GET pairs", reply, e2))
                    /\ IF e2 # NoError
                       THEN Throw(e2)
                       ELSE pc' = AfterPairs(variant) /\ UNCHANGED outcome
  /\ UNCHANGED <<other, moduleScope>>
  /\ UNCHANGED <<variant, request, permission, addresses, fixedQuote, order,
                 spendInfo>>

\* ---------------------------------------------------------------- POST quotes
\* the field names of the POST quotes body, as each revision writes them
quoteBodyKeys(v) ==
  IF v \in PermissionVariants
  THEN {"depositMethod", "settleMethod", "depositAmount"}
  ELSE {"depositMethod", "settlMethod", "depositAmount"}

\* the POST quotes request with its body
QuoteCall(v, req, deposit) ==
  [op |-> "POST quotes", a |-> quoteMethod(v, req.fromCurrencyCode),
   b |-> quoteMethod(v, req.toCurrencyCode), amount |-> deposit,
   keys |-> quoteBodyKeys(v)]

PostQuote ==
  /\ pc = "quotes"
  /\ \E reply \in QuoteReplies :
       LET e == transportError(variant, "POST", reply)
           deposit == IF variant \in PermissionVariants THEN depositAmount
                      ELSE quoteAmountOf(request)
           e2 == IF variant \in {"P004", "P000A"} /\ reply.body.error # ""
                 THEN checkQuoteError(rate, request, reply.body.error)
                 ELSE NoError
       IN
       /\ lastReply' = replyOf(reply)
       /\ received' = Append(received, Received("POST quotes", reply, NoError))
       /\ calls' = Append(calls, QuoteCall(variant, request, deposit))
       /\ depositAmount' = deposit
       /\ IF e # NoError
          THEN Throw(e) /\ UNCHANGED fixedQuote
          ELSE /\ fixedQuote' = IF variant = "SJS" THEN UndefinedQuote
                                ELSE reply.body
               /\ IF e2 # NoError
                  THEN Throw(e2)
                  ELSE pc' = AfterQuotes(variant) /\ UNCHANGED outcome
  /\ UNCHANGED <<other, moduleScope>>
  /\ UNCHANGED <<variant, request, permission, addresses, rate, order,
                 spendInfo>>

\* ---------------------------------------------------------------- POST orders
\* a spendInfo whose fee option compares the ticker as it was given
spendInfoOf_caseSensitive(v, req, addr, o) ==
  [publicAddress |-> IF v \in PermissionVariants THEN o.depositAddress
                     ELSE o.settleAddress,
   nativeAmount |->
     denominationToNative(o.depositAmount, toUpperCase(req.fromCurrencyCode)),
   networkFeeOption |-> IF req.fromCurrencyCode = "BTC"
                        THEN "high" ELSE "standard",
   orderId |-> o.orderId,
   isEstimate |-> FALSE,
   payoutAddress |-> addr.to,
   payoutCurrencyCode |-> IF v \in PermissionVariants
                          THEN safeCurrencyCode(v, req.toCurrencyCode)
                          ELSE req.toCurrencyCode,
   payoutNativeAmount |->
     denominationToNative(o.settleAmount, req.toCurrencyCode),
   plugin |-> pluginOf(moduleScope.swapInfo),
   refundAddress |-> addr.from,
   amountExpectedFromNative |->
     denominationToNative(o.depositAmount, req.fromCurrencyCode),
   amountExpectedToNative |->
     denominationToNative(o.settleAmount, req.toCurrencyCode)]

\* a spend whose payoutAddress is quoteInfo.settleAddress.address
spendInfoOf_providerPayout(v, req, addr, o) ==
  [publicAddress |-> IF v \in PermissionVariants THEN o.depositAddress
                     ELSE o.settleAddress,
   nativeAmount |->
     denominationToNative(o.depositAmount, toUpperCase(req.fromCurrencyCode)),
   networkFeeOption |-> IF toUpperCase(req.fromCurrencyCode) = "BTC"
                        THEN "high" ELSE "standard",
   orderId |-> o.orderId,
   isEstimate |-> FALSE,
   payoutAddress |-> o.settleAddress,
   payoutCurrencyCode |-> IF v \in PermissionVariants
                          THEN safeCurrencyCode(v, req.toCurrencyCode)
                          ELSE req.toCurrencyCode,
   payoutNativeAmount |->
     denominationToNative(o.settleAmount, req.toCurrencyCode),
   plugin |-> pluginOf(moduleScope.swapInfo),
   refundAddress |-> addr.from,
   amountExpectedFromNative |->
     denominationToNative(o.depositAmount, req.fromCurrencyCode),
   amountExpectedToNative |->
     denominationToNative(o.settleAmount, req.toCurrencyCode)]

\* spendInfo and the amounts computed from the order reply
spendInfoOf(v, req, addr, o) ==
  [publicAddress |-> IF v \in PermissionVariants THEN o.depositAddress
                     ELSE o.settleAddress,
   nativeAmount |->
     denominationToNative(o.depositAmount, toUpperCase(req.fromCurrencyCode)),
   networkFeeOption |-> IF toUpperCase(req.fromCurrencyCode) = "BTC"
                        THEN "high" ELSE "standard",
   orderId |-> o.orderId,
   isEstimate |-> FALSE,
   payoutAddress |-> addr.to,
   payoutCurrencyCode |-> IF v \in PermissionVariants
                          THEN safeCurrencyCode(v, req.toCurrencyCode)
                          ELSE req.toCurrencyCode,
   payoutNativeAmount |->
     denominationToNative(o.settleAmount, req.toCurrencyCode),
   plugin |-> pluginOf(moduleScope.swapInfo),
   refundAddress |-> addr.from,
   amountExpectedFromNative |->
     denominationToNative(o.depositAmount, req.fromCurrencyCode),
   amountExpectedToNative |->
     denominationToNative(o.settleAmount, req.toCurrencyCode)]

\* the error the code after the order reply throws (NoError: none); a reply
\* without depositAddress makes quoteInfo.depositAddress.address throw
orderStepError(v, o, req) ==
  LET e == IF v \in CatchVariants THEN checkReplyforError(o, req) ELSE NoError
  IN IF e # NoError THEN e
     ELSE IF o.depositAddress = "undefined" THEN TypeError
     ELSE NoError

PostOrder ==
  /\ pc = "orders"
  /\ \E reply \in OrderReplies :
       LET e == transportError(variant, "POST", reply)
           e2 == orderStepError(variant, reply.body, request)
       IN
       /\ lastReply' = replyOf(reply)
       /\ received' = Append(received, Received("POST orders", reply, NoError))
       /\ calls' = Append(calls,
            Call("POST orders", fixedQuote.id, addresses.to, Undefined))
       /\ IF e # NoError
          THEN Throw(e) /\ UNCHANGED <<order, spendInfo>>
          ELSE /\ order' = reply.body
               /\ IF e2 # NoError
                  THEN Throw(e2) /\ UNCHANGED spendInfo
                  ELSE /\ spendInfo' =
                            spendInfoOf(variant, request, addresses, reply.body)
                       /\ pc' = "spend"
                       /\ UNCHANGED outcome
  /\ UNCHANGED <<other, moduleScope>>
  /\ UNCHANGED <<variant, request, permission, addresses, rate, depositAmount,
                 fixedQuote>>

\* ------------------------------------------------------------------ makeSpend
\* the expiration date handed to makeSwapPluginQuote
expirationOf(v, o) ==
  CASE v = "P001" -> o.expiresAt + orderExpirationMs
    [] v \in {"P004", "P000A"} -> o.expiresAtISO
    [] OTHER -> o.expiresAt

\* makeSwapPluginQuote called with quoteInfo.orderId in place of quoteInfo.id
swapQuoteOf_orderId(v, addr, o, spend, tx) ==
  [fromNativeAmount |-> spend.amountExpectedFromNative,
   toNativeAmount |-> spend.amountExpectedToNative,
   tx |-> tx,
   destinationAddress |-> addr.to,
   pluginId |-> "sideshift",
   isEstimate |-> FALSE,
   expirationDate |-> expirationOf(v, o),
   quoteId |-> o.orderId]

\* return makeSwapPluginQuote(request, .., quoteInfo.id)
swapQuoteOf(v, addr, o, spend, tx) ==
  [fromNativeAmount |-> spend.amountExpectedFromNative,
   toNativeAmount |-> spend.amountExpectedToNative,
   tx |-> tx,
   destinationAddress |-> addr.to,
   pluginId |-> "sideshift",
   isEstimate |-> FALSE,
   expirationDate |-> expirationOf(v, o),
   quoteId |-> o.id]

MakeSpend ==
  /\ pc = "spend"
  /\ calls' = Append(calls,
       Call("makeSpend", spendInfo.publicAddress, "", spendInfo.nativeAmount))
  /\ \E succeeds \in BOOLEAN, writes \in BOOLEAN :
       \* the wallet is handed spendInfo and may write to the plugin object in
       \* its swapData
       LET written == [spendInfo.plugin.value EXCEPT
                         !.displayName = "written by the wallet"]
       IN
       /\ received' = Append(received,
            Received("makeSpend", [succeeds |-> succeeds, writes |-> writes],
                     NoError))
       /\ IF succeeds
          THEN /\ outcome' = Resolved(swapQuoteOf(variant, addresses, order,
                                                  spendInfo, "tx"))
               /\ pc' = "done"
          ELSE Throw(WalletError)
       /\ IF writes /\ spendInfo.plugin.shared
          THEN /\ moduleScope' = [moduleScope EXCEPT !.swapInfo = written]
               /\ UNCHANGED spendInfo
          ELSE /\ spendInfo' = IF writes
                               THEN [spendInfo EXCEPT !.plugin.value = written]
                               ELSE spendInfo
               /\ UNCHANGED moduleScope
  /\ UNCHANGED other
  /\ UNCHANGED <<variant, request, permission, addresses, rate, depositAmount,
                 fixedQuote, order, lastReply>>

\* --------------------------------------------------------- the specification
Next ==
  \/ GetPermissions
  \/ StartAddressLookups
  \/ FromAddressDone
  \/ ToAddressDone
  \/ GetRate
  \/ PostQuote
  \/ PostOrder
  \/ MakeSpend

Spec == Init /\ [][Next]_vars

\* Every collaborator call returns or rejects in the end: a step that is
\* possible is taken.
SpecLive == Init /\ [][Next]_vars /\ WF_vars(Next)

\* ------------------------------------------- the statements behind the order
\* The statements from the order reply to the returned quote, by themselves:
\* quoteInfo is any order the provider may return, the two addresses are
\* resolved.  (Under Spec, sideshift.js does not get this far: its post()
\* resolves to undefined and reading fixedRateQuote.id throws.)
\* the requests, and those for BTC with the ticker written in lower case
SpendRequests ==
  Requests \cup {[r EXCEPT !.fromCurrencyCode = "btc"] :
                   r \in {q \in Requests : q.fromCurrencyCode = "BTC"}}

InitSpendInfo ==
  /\ variant \in Variants
  /\ request \in SpendRequests
  /\ pc = "quoteInfo"
  /\ calls = <<>>
  /\ outcome = Pending
  /\ permission = NoPermission
  /\ \E f \in {i \in AddressReplies("from") : ~i.failed},
        t \in {i \in AddressReplies("to") : ~i.failed} :
       addresses = [from |-> getAddress(variant, f, request.fromCurrencyCode),
                    to |-> getAddress(variant, t, request.toCurrencyCode)]
  /\ rate = NoRate
  /\ depositAmount = Undefined
  /\ fixedQuote = NoQuoteBody
  /\ order \in OrderBodies
  /\ spendInfo = NoSpendInfo
  /\ lastReply = NoReply
  /\ received = <<>>
  /\ other = NoInvocation
  /\ moduleScope = ModuleScope(variant)

\* const spendInfoAmount = ..; const spendInfo = {..}
BuildSpendInfo ==
  /\ pc = "quoteInfo"
  /\ spendInfo' = spendInfoOf(variant, request, addresses, order)
  /\ pc' = "spend"
  /\ UNCHANGED <<received, other, moduleScope>>
  /\ UNCHANGED <<variant, request, calls, outcome, permission, addresses, rate,
                 depositAmount, fixedQuote, order, lastReply>>

NextSpendInfo ==
  \/ BuildSpendInfo
  \/ MakeSpend

SpecSpendInfo == InitSpendInfo /\ [][NextSpendInfo]_vars

\* ------------------------------------------------------ the address lookups
\* The two getAddress calls by themselves, for requests that also name DGB,
\* the ticker of the dontUseLegacy table.
AddressRequests ==
  {r \in Requests : r.nativeAmount = 100}
  \cup {[r EXCEPT !.fromCurrencyCode = "DGB"] :
          r \in {q \in Requests : q.nativeAmount = 100}}
  \cup {[r EXCEPT !.toCurrencyCode = "DGB"] :
          r \in {q \in Requests : q.nativeAmount = 100}}

InitAddress ==
  /\ variant \in Variants
  /\ request \in AddressRequests
  /\ pc = "addresses"
  /\ calls = <<>>
  /\ outcome = Pending
  /\ permission = NoPermission
  /\ addresses = [from |-> "", to |-> ""]
  /\ rate = NoRate
  /\ depositAmount = Undefined
  /\ fixedQuote = NoQuoteBody
  /\ order = NoOrder
  /\ spendInfo = NoSpendInfo
  /\ lastReply = NoReply
  /\ received = <<>>
  /\ other = NoInvocation
  /\ moduleScope = ModuleScope(variant)

NextAddress ==
  \/ StartAddressLookups
  \/ FromAddressDone
  \/ ToAddressDone

SpecAddress == InitAddress /\ [][NextAddress]_vars

\* ------------------------------------------------- two concurrent invocations
\* fetchSwapQuote keeps everything it reads and writes in its own consts; the
\* module and the closure of makeSideshiftPlugin hold constants only.  Two
\* invocations of the same plugin interleave at their awaits: the frame of
\* the one that is suspended is kept in `other`.
Invocation ==
  [variant |-> variant, request |-> request, pc |-> pc, calls |-> calls,
   outcome |-> outcome, permission |-> permission, addresses |-> addresses,
   rate |-> rate, depositAmount |-> depositAmount, fixedQuote |-> fixedQuote,
   order |-> order, spendInfo |-> spendInfo, lastReply |-> lastReply,
   received |-> received]

\* the frame of an invocation that has not run yet
NewInvocation(v, req) ==
  [variant |-> v, request |-> req, pc |-> FirstPc(v), calls |-> <<>>,
   outcome |-> Pending, permission |-> NoPermission,
   addresses |-> [from |-> "", to |-> ""], rate |-> NoRate,
   depositAmount |-> Undefined, fixedQuote |-> NoQuoteBody, order |-> NoOrder,
   spendInfo |-> NoSpendInfo, lastReply |-> NoReply, received |-> <<>>]

\* the requests of the two invocations
TwoRequests ==
  {r \in Requests :
     /\ r.nativeAmount = 100 * MaxAmount
     /\ \/ r.toCurrencyCode = "LTC" /\ r.quoteFor = "to"
        \/ r.toCurrencyCode = "USDT" /\ r.quoteFor = "from"}

\* the replies the collaborators give while two invocations run: status 200,
\* a lower bound of 100 and rate 2 or 1/2, no legacy address
TwoReplies(entry) ==
  CASE entry.op \in {"from", "to"} -> entry.reply.legacyAddress = ""
    [] entry.op = "makeSpend" -> TRUE
    [] OTHER ->
         /\ entry.reply.fetched
         /\ entry.reply.status = 200
         /\ entry.choice \in {NoError, TypeError}
         /\ (entry.op = "GET permissions" /\ entry.reply.json)
              => entry.reply.body.createOrder = entry.reply.body.createQuote
         /\ (entry.op = "GET pairs" /\ entry.reply.json
             /\ entry.reply.body.error = "")
              => /\ entry.reply.body.min = 100
                 /\ entry.reply.body.max = 100 * MaxLimit
                 /\ entry.reply.body.rate \in {<<2, 1>>, <<1, 2>>}
         /\ (entry.op = "POST quotes" /\ entry.reply.json)
              => entry.reply.body.error \in {"", "Amount too low"}
         /\ (entry.op = "POST orders" /\ entry.reply.json)
              => entry.reply.body.error \in {"", "Order failed"}

TwoBound == received = <<>> \/ TwoReplies(received[Len(received)])

InitTwo ==
  /\ variant \in Variants
  /\ request \in TwoRequests
  /\ pc = FirstPc(variant)
  /\ calls = <<>>
  /\ outcome = Pending
  /\ permission = NoPermission
  /\ addresses = [from |-> "", to |-> ""]
  /\ rate = NoRate
  /\ depositAmount = Undefined
  /\ fixedQuote = NoQuoteBody
  /\ order = NoOrder
  /\ spendInfo = NoSpendInfo
  /\ lastReply = NoReply
  /\ received = <<>>
  /\ \E req \in TwoRequests : other = NewInvocation(variant, req)
  /\ moduleScope = ModuleScope(variant)

\* a plugin that keeps the rate in a variable of its closure: the invocation
\* that resumes finds the rate the other one left there
Switch_sharedRate ==
  /\ other # NoInvocation
  /\ other.pc # "done"
  /\ variant' = other.variant
  /\ request' = other.request
  /\ pc' = other.pc
  /\ calls' = other.calls
  /\ outcome' = other.outcome
  /\ permission' = other.permission
  /\ addresses' = other.addresses
  /\ rate' = rate
  /\ depositAmount' = other.depositAmount
  /\ fixedQuote' = other.fixedQuote
  /\ order' = other.order
  /\ spendInfo' = other.spendInfo
  /\ lastReply' = other.lastReply
  /\ received' = other.received
  /\ other' = Invocation
  /\ UNCHANGED moduleScope

\* the running invocation is suspended at its await and the other one resumes
Switch ==
  /\ other # NoInvocation
  /\ other.pc # "done"
  /\ variant' = other.variant
  /\ request' = other.request
  /\ pc' = other.pc
  /\ calls' = other.calls
  /\ outcome' = other.outcome
  /\ permission' = other.permission
  /\ addresses' = other.addresses
  /\ rate' = other.rate
  /\ depositAmount' = other.depositAmount
  /\ fixedQuote' = other.fixedQuote
  /\ order' = other.order
  /\ spendInfo' = other.spendInfo
  /\ lastReply' = other.lastReply
  /\ received' = other.received
  /\ other' = Invocation
  /\ UNCHANGED moduleScope

NextTwo ==
  \/ Switch
  \/ GetPermissions /\ TwoBound'
  \/ StartAddressLookups
  \/ FromAddressDone /\ TwoBound'
  \/ ToAddressDone /\ TwoBound'
  \/ GetRate /\ TwoBound'
  \/ PostQuote /\ TwoBound'
  \/ PostOrder /\ TwoBound'
  \/ MakeSpend

SpecTwo == InitTwo /\ [][NextTwo]_vars

\* ===================================================================== claims
\* helpers of the properties
Made(op) == \E i \in 1..Len(calls) : calls[i].op = op
Count(op) == Cardinality({i \in 1..Len(calls) : calls[i].op = op})
CountWallet(op, wallet) ==
  Cardinality({i \in 1..Len(calls) : calls[i].op = op /\ calls[i].a = wallet})
Ops == [i \in 1..Len(calls) |-> calls[i].op]
IsPrefix(s, t) == Len(s) <= Len(t) /\ \A i \in 1..Len(s) : s[i] = t[i]
RateReceived == rate # NoRate /\ rate.error = ""
NativeMinOfRate == denominationToNative(rate.min, request.fromCurrencyCode)
NativeMaxOfRate == denominationToNative(rate.max, request.fromCurrencyCode)

\* C1: when the permissions reply has createOrder = false or createQuote =
\* false, fetchSwapQuote rejects with SwapPermissionError('geoRestriction') and
\* GET permissions is the only collaborator call of the invocation.
C1_PermissionDeniedStops ==
  (permission.createOrder = "false" \/ permission.createQuote = "false")
    => /\ outcome = Rejected(SwapPermissionError)
       /\ Ops = <<"GET permissions">>

C1_Witness ==
  /\ variant = "P001"
  /\ permission = [createOrder |-> "true", createQuote |-> "false"]
  /\ outcome.kind = "rejected"
  /\ pc = "done"

\* C2: in the revisions that test rate.error (part_001, part_004), a rate reply
\* with an error field makes fetchSwapQuote reject with SwapCurrencyError
\* carrying the request's two tickers, and no POST quotes and no POST orders
\* request is made.
C2_RateErrorIsCurrencyError ==
  (variant \in {"P001", "P004"} /\ rate.error # "")
    => /\ outcome = Rejected(SwapCurrencyError(request.fromCurrencyCode,
                                               request.toCurrencyCode))
       /\ Count("POST quotes") = 0
       /\ Count("POST orders") = 0

C2_Witness ==
  /\ variant = "P001"
  /\ rate.error # ""
  /\ request.fromCurrencyCode = "USDT"
  /\ outcome.error.type = "SwapCurrencyError"
  /\ outcome.error.from = "USDT"
  /\ Made("GET pairs")

\* C3 as stated: in part_001, a requested native amount below nativeMin fails
\* with SwapBelowLimitError(nativeMin), one above nativeMax with
\* SwapAboveLimitError(nativeMax), and no quote or order request is sent.
C3_Original ==
  (variant = "P001" /\ RateReceived)
    => /\ request.nativeAmount < NativeMinOfRate
            => /\ outcome = Rejected(SwapBelowLimitError(NativeMinOfRate))
               /\ ~Made("POST quotes") /\ ~Made("POST orders")
       /\ request.nativeAmount > NativeMaxOfRate
            => /\ outcome = Rejected(SwapAboveLimitError(NativeMaxOfRate))
               /\ ~Made("POST quotes") /\ ~Made("POST orders")

\* the amount part_001 compares: request.nativeAmount when quoting 'from', the
\* deposit amount in native units of the source asset when quoting 'to'
C3_ComparedAmount ==
  IF request.quoteFor = "from" THEN request.nativeAmount
  ELSE mul(depositAmount, Multiplier(request.fromCurrencyCode))

\* C3 amended: in part_001, with a rate reply without error, a compared amount
\* below nativeMin fails with SwapBelowLimitError(nativeMin); one that is not
\* below nativeMin and is above nativeMax fails with
\* SwapAboveLimitError(nativeMax); in both cases no quote or order request is
\* sent.
C3_LimitsOnComparedAmount ==
  (variant = "P001" /\ RateReceived)
    => /\ C3_ComparedAmount < NativeMinOfRate
            => /\ outcome = Rejected(SwapBelowLimitError(NativeMinOfRate))
               /\ ~Made("POST quotes") /\ ~Made("POST orders")
       /\ (C3_ComparedAmount >= NativeMinOfRate
           /\ C3_ComparedAmount > NativeMaxOfRate)
            => /\ outcome = Rejected(SwapAboveLimitError(NativeMaxOfRate))
               /\ ~Made("POST quotes") /\ ~Made("POST orders")

C3_Witness ==
  /\ variant = "P001"
  /\ RateReceived
  /\ request.quoteFor = "to"
  /\ request.nativeAmount >= NativeMinOfRate
  /\ C3_ComparedAmount < NativeMinOfRate
  /\ outcome.error.type = "SwapBelowLimitError"

C5_UnclassifiedQuoteErrorAborts ==
  (variant = "P004"
   /\ fixedQuote.error \notin {"", "Amount too low", "Amount too high"})
    => /\ ~Made("POST orders")
       /\ ~Made("makeSpend")
       /\ pc = "done" => outcome.kind = "rejected"

\* C6 as stated: in part_004, when the deposit amount in native units is below
\* the converted rate.min or above the converted rate.max, no POST orders
\* request is sent and the invocation ends with the limit error.
C6_LimitsCheckedBeforeOrder ==
  (variant = "P004" /\ RateReceived
   /\ LET deposit == mul(depositAmount, Multiplier(request.fromCurrencyCode))
      IN deposit < NativeMinOfRate \/ deposit > NativeMaxOfRate)
    => /\ ~Made("POST orders")
       /\ pc = "done" => outcome.error.type \in {"SwapBelowLimitError",
                                                 "SwapAboveLimitError"}

\* C7 as stated: fetchSwapQuote never resolves with a value that is not a
\* quote; a failure of the pipeline rejects the promise.
C7_FailureRejects ==
  outcome.kind = "resolved"
    => outcome.error = NoError /\ outcome.quote # NoSwapQuote

\* the order of the collaborator calls of part_004
C8_CanonicalOps ==
  <<"GET permissions", "getReceiveAddress", "getReceiveAddress", "GET pairs",
    "POST quotes", "POST orders", "makeSpend">>

\* C8 as stated: in part_004 the collaborator calls are a prefix of GET
\* permissions, getReceiveAddress (source), getReceiveAddress (destination),
\* GET pairs, POST quotes, POST orders, makeSpend; a call is made only after
\* the step before it completed successfully (the permissions grant, both
\* addresses, a rate without error, a fixed quote without error, an order);
\* once the invocation has failed it is at its end and makes no further call.
C8_LinearPipeline ==
  variant = "P004" =>
    /\ IsPrefix(Ops, C8_CanonicalOps)
    /\ Len(calls) >= 2 => ~permissionDenied(permission)
    /\ Len(calls) >= 3 => calls[2].a = "fromWallet" /\ calls[3].a = "toWallet"
    /\ Len(calls) >= 4 => addresses.from # "" /\ addresses.to # ""
    /\ Len(calls) >= 5 => RateReceived
    /\ Len(calls) >= 6 => fixedQuote.error = "" /\ fixedQuote.id # "undefined"
    /\ Len(calls) >= 7 => order.error = "" /\ order.id # "undefined"
    /\ outcome.kind # "pending" => pc = "done"

\* C9 as stated: in sideshift.js no POST quotes request is made before the
\* rate lookup GET pairs has been made.
C9_RateBeforeQuote ==
  variant = "SJS"
    => \A i \in 1..Len(calls) :
         calls[i].op = "POST quotes"
           => \E j \in 1..(i - 1) : calls[j].op = "GET pairs"

\* C10: in one invocation each of GET permissions, GET pairs, the quote
\* request, the order request and makeSpend is made at most once, and
\* getReceiveAddress at most once per wallet.
C10_NoRetries ==
  /\ \A op \in {"GET permissions", "GET pairs", "POST quotes", "POST orders",
                 "makeSpend"} : Count(op) <= 1
  /\ \A w \in {"fromWallet", "toWallet"} :
       CountWallet("getReceiveAddress", w) <= 1

C10_Witness ==
  /\ variant = "P000C"
  /\ pc = "done"
  /\ outcome.error = StatusError(500)
  /\ Count("POST quotes") = 1
  /\ Count("GET pairs") = 1
  /\ ~Made("POST orders")

\* C11 as stated: whenever the latest provider reply cannot be parsed as JSON,
\* the invocation has ended there with the generic Error that carries the
\* reply's HTTP status.
C11_UnparsableReplyIsStatusError ==
  (lastReply.fetched /\ ~lastReply.json)
    => /\ pc = "done"
       /\ outcome.error = StatusError(lastReply.status)

\* C12 as stated, in its weakest part: whenever the latest provider reply has
\* a status outside 200..299, the invocation has ended with an error and makes
\* no later call.
C12_NonSuccessStatusAborts ==
  (lastReply.fetched /\ ~ok(lastReply))
    => /\ pc = "done"
       /\ outcome.error # NoError

\* the latest call of the invocation
LastCall == calls[Len(calls)]

\* C13: in the revisions that start with GET permissions (part_001, part_004),
\* when the permissions grant both capabilities, the rate and the fixed quote
\* carry no error, the order was returned and fetchSwapQuote resolved, the
\* quote it returns has quoteId = order.id, fromNativeAmount converted from
\* order.depositAmount, toNativeAmount converted from order.settleAmount and
\* isEstimate = false, and the makeSpend call it made targets
\* order.depositAddress.address.
C13_SuccessQuoteFromOrder ==
  (/\ variant \in PermissionVariants
   /\ ~permissionDenied(permission)
   /\ RateReceived
   /\ fixedQuote.error = ""
   /\ order.error = ""
   /\ outcome.kind = "resolved")
    => /\ outcome.error = NoError
       /\ outcome.quote.quoteId = order.id
       /\ outcome.quote.fromNativeAmount =
            denominationToNative(order.depositAmount, request.fromCurrencyCode)
       /\ outcome.quote.toNativeAmount =
            denominationToNative(order.settleAmount, request.toCurrencyCode)
       /\ outcome.quote.isEstimate = FALSE
       /\ LastCall.op = "makeSpend"
       /\ LastCall.a = order.depositAddress
       /\ Count("makeSpend") = 1

C13_Witness ==
  /\ variant = "P004"
  /\ permission = [createOrder |-> "true", createQuote |-> "true"]
  /\ outcome.kind = "resolved"
  /\ request.toCurrencyCode = "USDT"
  /\ fixedQuote.settleAmount = 500
  /\ order.id = "o1" /\ order.orderId = "o1b"
  /\ outcome.quote.quoteId = "o1"
  /\ outcome.quote.toNativeAmount = 3
  /\ outcome.quote.fromNativeAmount = 200
  /\ LastCall.a = "providerDeposit"

MethodCalls ==
  {i \in 1..Len(calls) : calls[i].op \in {"GET pairs", "POST quotes"}}

\* C15: in part_004 (getSafeCurrencyCode) the method of USDT, the key of
\* CURRENCY_CODE_TRANSCRIPTION, is 'usdtErc20' with its case unchanged, the
\* method of any other ticker is the lowercased ticker, and the from and the
\* to ticker are mapped independently: every GET pairs and POST quotes
\* request carries <<method of from, method of to>>.
C15_Method(code) ==
  CASE code = "USDT" -> "usdtErc20"
    [] code = "BTC" -> "btc"
    [] code = "LTC" -> "ltc"

C15_SafeCurrencyCode ==
  variant = "P004"
    => \A i \in MethodCalls :
         /\ calls[i].a = C15_Method(request.fromCurrencyCode)
         /\ calls[i].b = C15_Method(request.toCurrencyCode)

C15_Witness ==
  /\ variant = "P004"
  /\ request.fromCurrencyCode = "BTC"
  /\ request.toCurrencyCode = "USDT"
  /\ Made("POST quotes")
  /\ \A i \in MethodCalls : calls[i].a = "btc" /\ calls[i].b = "usdtErc20"

\* the methods the mapper contract gives in sideshift.js, whose table is
\* USDT -> 'USDT20'
C16_Method(code) ==
  CASE code = "USDT" -> "USDT20"
    [] code = "BTC" -> "btc"
    [] code = "LTC" -> "ltc"

\* C16 as stated: in sideshift.js the two methods of the quote body and of the
\* pairs path are the lowercased ticker for a ticker without a table entry and
\* the table value, case unchanged, for a ticker with one.
C16_MethodsFollowMapper ==
  variant = "SJS"
    => \A i \in MethodCalls :
         {calls[i].a, calls[i].b} =
           {C16_Method(request.fromCurrencyCode),
            C16_Method(request.toCurrencyCode)}

\* the destination-denominated amount T of a request quoted for 'to'
C17_TargetAmount ==
  nativeToDenomination(request.nativeAmount, request.toCurrencyCode)

\* d is T / R rounded to the nearest 10^-8, R = num / den
C17_IsRounded(d, T, R) ==
  LET diff == d * R[1] - T * R[2]
  IN 2 * (IF diff < 0 THEN -diff ELSE diff) <= R[1]

\* C17 as stated: the depositAmount of every POST quotes request is, for
\* quoteFor = 'from', nativeToDenomination(request.nativeAmount, source asset),
\* and for quoteFor = 'to', the destination-denominated amount divided by the
\* rate that was looked up, rounded to 8 fractional digits.
C17_DepositAmountSent ==
  \A i \in 1..Len(calls) :
    calls[i].op = "POST quotes"
      => IF request.quoteFor = "from"
         THEN calls[i].amount =
                nativeToDenomination(request.nativeAmount,
                                     request.fromCurrencyCode)
         ELSE /\ RateReceived
              /\ C17_IsRounded(calls[i].amount, C17_TargetAmount, rate.rate)

\* the amount C18 says part_001 compares with the limits
C18_Amount ==
  IF request.quoteFor = "from" THEN request.nativeAmount
  ELSE denominationToNative(depositAmount, request.fromCurrencyCode)

\* C18: in part_001, once a rate without error is received, the deposit amount
\* of a request quoted for 'to' is target amount / rate (rounded), and the
\* invocation stops before POST quotes exactly when the amount of the
\* direction (request.nativeAmount for 'from', the deposit amount in native
\* units of the source asset for 'to') is outside [nativeMin, nativeMax]; the
\* limit error raised is decided by that amount and not by the request's
\* destination-side native amount.
C18_ComparedAmountByDirection ==
  (variant = "P001" /\ RateReceived)
    => /\ request.quoteFor = "to"
            => C17_IsRounded(depositAmount, C17_TargetAmount, rate.rate)
       /\ (pc = "done" /\ ~Made("POST quotes"))
            <=> (C18_Amount < NativeMinOfRate \/ C18_Amount > NativeMaxOfRate)
       /\ outcome.error.type = "SwapBelowLimitError"
            <=> C18_Amount < NativeMinOfRate
       /\ outcome.error.type = "SwapAboveLimitError"
            <=> (C18_Amount >= NativeMinOfRate /\ C18_Amount > NativeMaxOfRate)

C18_Witness ==
  /\ variant = "P001"
  /\ RateReceived
  /\ request.quoteFor = "to"
  /\ request.nativeAmount > NativeMaxOfRate
  /\ C18_Amount <= NativeMaxOfRate
  /\ Made("POST quotes")

\* checkRateForError of part_001 on the same rate for a request of n native
\* units of the source asset
C19_Validator(n) ==
  LET req == [request EXCEPT !.nativeAmount = n, !.quoteFor = "from"]
  IN checkRateForError(rate, req, quoteAmountOf(req))

\* C19: the numeric validator (checkRateForError, part_001) and the tag
\* classifier (checkQuoteError, part_004) agree.  Whenever the validator has
\* raised a limit error, its condition holds of the compared amount and the
\* classifier, given the same rate and the tag of that condition, raises the
\* same error with the same native bound; whenever the classifier has raised
\* a limit error for a tag, the error is of the tag's kind and the validator
\* raises the same error for every amount it puts in that kind.
C19_CallSitesAgree ==
  /\ (variant = "P001" /\ RateReceived)
       => /\ outcome.error.type = "SwapBelowLimitError"
               => /\ C18_Amount < NativeMinOfRate
                  /\ checkQuoteError(rate, request, "Amount too low")
                       = outcome.error
          /\ outcome.error.type = "SwapAboveLimitError"
               => /\ C18_Amount > NativeMaxOfRate
                  /\ checkQuoteError(rate, request, "Amount too high")
                       = outcome.error
  /\ (variant = "P004" /\ fixedQuote.error \in {"Amount too low",
                                                 "Amount too high"})
       => /\ outcome.error.type =
               (IF fixedQuote.error = "Amount too low"
                THEN "SwapBelowLimitError" ELSE "SwapAboveLimitError")
          /\ \A n \in NativeAmounts :
               C19_Validator(n).type = outcome.error.type
                 => C19_Validator(n) = outcome.error

C19_Witness ==
  /\ variant = "P001"
  /\ RateReceived
  /\ rate.min < rate.max
  /\ request.fromCurrencyCode = "BTC"
  /\ request.quoteFor = "from"
  /\ outcome.error = SwapAboveLimitError(200)
  /\ checkQuoteError(rate, request, "Amount too high") = outcome.error

\* a request to one of the provider's pairs, quotes or orders endpoints
C20_ProviderRequestMade ==
  Made("GET pairs") \/ Made("POST quotes") \/ Made("POST orders")

C21_Frames == {Invocation, other}

\* the bodies the provider returned to the invocation of frame f for op
C21_Bodies(f, op) ==
  {f.received[k].reply.body :
     k \in {i \in 1..Len(f.received) :
              f.received[i].op = op /\ f.received[i].reply.json}}

C21_Called(f, op) == \E i \in 1..Len(f.calls) : f.calls[i].op = op

\* C21: two invocations of the same plugin, interleaved in any way at their
\* awaits.  (a) What an invocation holds is what the collaborators returned
\* to it: its permission, rate, fixed quote and order are bodies of its own
\* replies, obtained by its own requests, the order request carries the id
\* of its own fixed quote and the quote it returns the id of its own order.
\* (b) Its outcome is decided by its own request and the replies it received
\* alone: two invocations with the same request that received the same
\* replies have the same outcome, and at the same await the same frame.
C21_Independent ==
  /\ \A f \in C21_Frames :
       /\ f.permission # NoPermission
            => /\ f.permission \in C21_Bodies(f, "GET permissions")
               /\ C21_Called(f, "GET permissions")
       /\ f.rate # NoRate
            => /\ f.rate \in C21_Bodies(f, "GET pairs")
               /\ C21_Called(f, "GET pairs")
       /\ f.fixedQuote \notin {NoQuoteBody, UndefinedQuote}
            => /\ f.fixedQuote \in C21_Bodies(f, "POST quotes")
               /\ C21_Called(f, "POST quotes")
       /\ f.order # NoOrder
            => /\ f.order \in C21_Bodies(f, "POST orders")
               /\ C21_Called(f, "POST orders")
       /\ \A i \in 1..Len(f.calls) :
            f.calls[i].op = "POST orders"
              => /\ f.calls[i].a = f.fixedQuote.id
                 /\ \E j \in 1..(i - 1) : f.calls[j].op = "POST quotes"
       /\ (f.outcome.kind = "resolved" /\ f.outcome.error = NoError)
            => f.outcome.quote.quoteId = f.order.id
  /\ (request = other.request /\ received = other.received)
       => /\ outcome = other.outcome
          /\ pc = other.pc => Invocation = other

C21_Witness ==
  /\ variant = "P001"
  /\ pc = "done" /\ other.pc = "done"
  /\ outcome.kind = "resolved" /\ other.outcome.kind = "resolved"
  /\ request # other.request
  /\ rate.rate # other.rate.rate
  /\ order.orderId # other.order.orderId
  /\ outcome.quote.toNativeAmount # other.outcome.quote.toNativeAmount

\* C22 as stated: in part_001, every POST orders request is made after a
\* quote reply without error and carries the id of that fixed quote.
C22_OrderReferencesQuote ==
  variant = "P001"
    => \A i \in 1..Len(calls) :
         calls[i].op = "POST orders"
           => /\ fixedQuote.error = ""
              /\ fixedQuote.id # "undefined"
              /\ calls[i].a = fixedQuote.id

\* C23 as stated: the expirationDate of the quote part_001 returns is the
\* order's expiresAt, with no offset.
C23_ExpirationIsOrderExpiresAt ==
  (variant = "P001" /\ outcome.kind = "resolved" /\ outcome.error = NoError)
    => outcome.quote.expirationDate = order.expiresAt

\* C24: the networkFeeOption of the spend instruction is 'high' exactly when
\* the request's fromCurrencyCode is BTC in any letter case and 'standard'
\* otherwise, whatever the destination ticker, the direction, the amount and
\* the revision.
C24_FeeOptionByFromTicker ==
  spendInfo # NoSpendInfo
    => spendInfo.networkFeeOption =
         (IF request.fromCurrencyCode \in {"BTC", "btc"}
          THEN "high" ELSE "standard")

C24_Witness ==
  /\ variant = "SJS"
  /\ request.fromCurrencyCode = "btc"
  /\ request.toCurrencyCode = "USDT"
  /\ spendInfo.networkFeeOption = "high"
  /\ Made("makeSpend")

\* C25 as stated: in sideshift.js every rate lookup is GET
\* pairs/{source method}/{destination method}, for both directions.
C25_RatePathSourceFirst ==
  variant = "SJS"
    => \A i \in 1..Len(calls) :
         calls[i].op = "GET pairs"
           => /\ calls[i].a = safeCurrencyCode("SJS", request.fromCurrencyCode)
              /\ calls[i].b = safeCurrencyCode("SJS", request.toCurrencyCode)

\* C26 as stated: in sideshift.js the body of every POST quotes request has
\* exactly the fields depositMethod, settleMethod and depositAmount, with the
\* mapped source method as depositMethod and the mapped destination method as
\* settleMethod.
C26_QuoteBodyFields ==
  variant = "SJS"
    => \A i \in 1..Len(calls) :
         calls[i].op = "POST quotes"
           => /\ calls[i].keys =
                   {"depositMethod", "settleMethod", "depositAmount"}
              /\ calls[i].a = safeCurrencyCode("SJS", request.fromCurrencyCode)
              /\ calls[i].b = safeCurrencyCode("SJS", request.toCurrencyCode)

\* C27 as stated: in the revisions that ask for the permissions, an address
\* lookup or a pairs, quotes or orders request is made only when the
\* permissions reply grants both createOrder and createQuote.
C27_BothCapabilitiesGranted ==
  (variant \in PermissionVariants
   /\ \E i \in 1..Len(calls) : calls[i].op # "GET permissions")
    => permission.createOrder = "true" /\ permission.createQuote = "true"

\* C28 as stated, in its first part: in sideshift.js, when the reply to POST
\* quotes has a parseable body, the fixed quote the pipeline reads afterwards
\* is that body.
C28_PostYieldsParsedBody ==
  variant = "SJS"
    => \A k \in 1..Len(received) :
         (received[k].op = "POST quotes" /\ received[k].reply.json
          /\ pc # "done")
           => fixedQuote = received[k].reply.body

\* C29 as stated: in createSideShiftApi of part_000, get and post raise the
\* 'returned error code <status>' error only when the body of the reply cannot
\* be parsed, and the status in the error is the status of the reply.
C29_TransportErrorOnlyWhenUnparsable ==
  variant = "P000A"
    => /\ (lastReply.fetched /\ lastReply.json)
            => outcome.error.type # StatusError(Undefined).type
       /\ outcome.error.type = StatusError(Undefined).type
            => outcome.error.status = lastReply.status

\* C30 as stated: in sideshift.js, a reply with status 403 and a JSON body
\* whose error text contains 'geo', to any provider call (GET pairs included),
\* ends the invocation with SwapPermissionError('geoRestriction').
C30_GeoDenialOnAnyCall ==
  (variant = "SJS" /\ received # <<>>)
    => LET last == received[Len(received)] IN
       (/\ last.op \in {"GET pairs", "POST quotes", "POST orders"}
        /\ last.reply.fetched /\ last.reply.json
        /\ last.reply.status = 403
        /\ geoTest(last.reply.body.error))
         => pc = "done" /\ outcome.error = SwapPermissionError

\* the address getAddress resolved from the wallet of one side in this
\* invocation ("" before the lookup has returned)
C31_Resolved(side, code) ==
  LET I == {k \in 1..Len(received) : received[k].op = side} IN
  IF I = {} THEN ""
  ELSE getAddress(variant, received[CHOOSE k \in I : TRUE].reply, code)

\* C31: the settleAddress of the POST orders body, the payoutAddress of the
\* swap metadata and the destination address of the returned quote are the
\* address resolved from the destination wallet in this invocation, and the
\* refundAddress is the address resolved from the source wallet.
C31_AddressesOfThisInvocation ==
  LET dst == C31_Resolved("to", request.toCurrencyCode)
      src == C31_Resolved("from", request.fromCurrencyCode)
  IN
  /\ \A i \in 1..Len(calls) :
       calls[i].op = "POST orders" => dst # "" /\ calls[i].b = dst
  /\ spendInfo # NoSpendInfo
       => /\ dst # "" /\ spendInfo.payoutAddress = dst
          /\ src # "" /\ spendInfo.refundAddress = src
  /\ (outcome.kind = "resolved" /\ outcome.error = NoError)
       => outcome.quote.destinationAddress = dst

\* a quote is returned after both wallets gave a legacy address
C31_Witness ==
  /\ outcome.kind = "resolved" /\ outcome.error = NoError
  /\ Made("POST orders") /\ Made("makeSpend")
  /\ outcome.quote.destinationAddress = "toLegacy"
  /\ spendInfo.payoutAddress = "toLegacy"
  /\ spendInfo.refundAddress = "fromLegacy"
  /\ order.settleAddress = "providerSettle"

\* the tickers of the legacy-address exception table of each revision
C32_Exceptions(v) == IF v \in {"P000B", "P000C", "SJS"} THEN {"DGB"} ELSE {}

\* C32: getAddress returns the legacyAddress when the receive-address record
\* has one and the ticker is not in the exception table, and the publicAddress
\* otherwise; in sideshift.js the table holds DGB.
C32_LegacyUnlessExcepted ==
  /\ "DGB" \in C32_Exceptions("SJS")
  /\ \A k \in 1..Len(received) :
       (received[k].op \in {"from", "to"} /\ ~received[k].reply.failed)
         => LET info == received[k].reply
                code == IF received[k].op = "from" THEN request.fromCurrencyCode
                        ELSE request.toCurrencyCode
            IN addresses[received[k].op] =
                 IF info.legacyAddress # "" /\ code \notin C32_Exceptions(variant)
                 THEN info.legacyAddress
                 ELSE info.publicAddress

\* sideshift.js resolved the public address of a DGB wallet that has a legacy
\* address, and the legacy address of the BTC wallet
C32_Witness ==
  /\ variant = "SJS"
  /\ request.toCurrencyCode = "DGB"
  /\ \E k \in 1..Len(received) :
       /\ received[k].op = "to"
       /\ received[k].reply.legacyAddress = "toLegacy"
  /\ addresses.to = "toPublic"
  /\ addresses.from = "fromLegacy"

\* C33 as stated: the order id of the returned quote is the orderId tagged in
\* the swap metadata of the spend that was made, for every order reply.
C33_QuoteIdIsTaggedOrderId ==
  (outcome.kind = "resolved" /\ outcome.error = NoError /\ Made("makeSpend"))
    => outcome.quote.quoteId = spendInfo.orderId

\* C34 as stated: in a successful invocation the native amount of the spend
\* target equals the source native amount of the returned quote, the
\* payoutNativeAmount equals its destination native amount, and both are
\* conversions of the amounts of the order reply.
C34_SpendAmountsMatchQuote ==
  (outcome.kind = "resolved" /\ outcome.error = NoError /\ Made("makeSpend"))
    => /\ spendInfo.nativeAmount = outcome.quote.fromNativeAmount
       /\ spendInfo.payoutNativeAmount = outcome.quote.toNativeAmount
       /\ outcome.quote.toNativeAmount =
            denominationToNative(order.settleAmount, request.toCurrencyCode)
       /\ \A i \in 1..Len(calls) :
            calls[i].op = "makeSpend"
              => calls[i].amount = outcome.quote.fromNativeAmount

\* C35: an invocation leaves the caller's request and the module-level
\* objects CURRENCY_CODE_TRANSCRIPTION, dontUseLegacy and swapInfo as they
\* were; the swap metadata holds a copy of swapInfo.
C35_Frame ==
  [][/\ request' = request
     /\ moduleScope' = moduleScope
     /\ moduleScope' = ModuleScope(variant')]_vars

\* a quote was returned after the wallet wrote to the plugin object of the
\* spend it was given
C35_Witness ==
  /\ outcome.kind = "resolved" /\ outcome.error = NoError
  /\ Made("makeSpend")
  /\ spendInfo.plugin.value # swapInfo
  /\ moduleScope = ModuleScope(variant)

\* the position of an await in the text of fetchSwapQuote
C36_Rank(p) ==
  CASE p = "permissions" -> 0
    [] p = "addresses" -> 1
    [] p = "addressesWait" -> 2
    [] p = "pairs" -> IF variant \in PermissionVariants THEN 3 ELSE 4
    [] p = "quotes" -> IF variant \in PermissionVariants THEN 4 ELSE 3
    [] p = "orders" -> 5
    [] p = "quoteInfo" -> 6
    [] p = "spend" -> 7
    [] OTHER -> 8

\* C36 as stated: when every collaborator call returns or rejects, the
\* invocation reaches a terminal state that is either a returned quote record
\* or a thrown error.
C36_EndsWithQuoteOrThrow ==
  <>(/\ pc = "done"
     /\ \/ outcome.kind = "rejected"
        \/ outcome.kind = "resolved" /\ outcome.error = NoError)

\* the invocation ends, one way or another
C36_Ends == <>(pc = "done" /\ outcome.kind # "pending")

\* no step goes back in the text, and the outcome is settled once
C36_NoBackEdge ==
  [][/\ C36_Rank(pc') >= C36_Rank(pc)
     /\ (pc' = pc => Len(received') > Len(received))
     /\ outcome.kind # "pending" => outcome' = outcome]_vars

\* makeSpend was called and rejected
C37_SpendFailed ==
  \E k \in 1..Len(received) :
    received[k].op = "makeSpend" /\ ~received[k].reply.succeeds

\* C37 as stated: makeSpend is called only after an order was created
\* successfully in this invocation, a quote is returned only after makeSpend
\* succeeded, and when makeSpend fails fetchSwapQuote fails without a quote
\* record while exactly one order was created.
C37_SpendAfterOrderQuoteAfterSpend ==
  /\ \A i \in 1..Len(calls) :
       calls[i].op = "makeSpend"
         => \E j \in 1..(i - 1) : calls[j].op = "POST orders"
  /\ Made("makeSpend")
       => /\ Count("POST orders") = 1
          /\ \E k \in 1..Len(received) :
               /\ received[k].op = "POST orders"
               /\ received[k].reply.fetched /\ received[k].reply.json
               /\ ok(received[k].reply)
               /\ received[k].reply.body.error = ""
               /\ received[k].reply.body = order
  /\ (outcome.kind = "resolved" /\ outcome.error = NoError)
       => /\ received # <<>>
          /\ received[Len(received)].op = "makeSpend"
          /\ received[Len(received)].reply.succeeds
  /\ C37_SpendFailed
       => /\ outcome.kind = "rejected"
          /\ outcome.quote = NoSwapQuote

====
